---- MODULE Spec2Model ----
(***************************************************************************)
(* A model of the fraud-classifier walkthrough (tutorial.ipynb): the       *)
(* training cell (OneHotEncoder + classifier), the save_model call into    *)
(* the local model store, the fraud_detection_service module (two          *)
(* "fraud_classifier:latest" lookups, the Service, the predict API) and    *)
(* the batchable runner that the save_model signature declares.            *)
(*                                                                         *)
(* Library calls are modelled by what the call does at the call site, for  *)
(* the versions the bentofile pins (scikit-learn 1.0.2, pandas 1.4.3,      *)
(* xgboost 1.5.1) and the model store of the serving framework.            *)
(***************************************************************************)
EXTENDS Integers, Sequences, FiniteSets, TLC

(***************************************************************************)
(* Bounds of the model.                                                    *)
(***************************************************************************)
MaxBatch == 2
MaxReqs == 2
MaxRows == 3
MaxSaves == 2
NumSavers == 2

(***************************************************************************)
(* Values.  Every JSON scalar is a string here; the markers below are the  *)
(* non-string cells a DataFrame can hold.                                  *)
(***************************************************************************)
Absent == "<absent>"
null == "null"
NaN == "NaN"
NA == "<NA>"
None == "None"

CatCols == <<"ProductCD", "P_emaildomain", "R_emaildomain", "card4", "M1", "M2", "M3">>

AmtCol == "TransactionAmt"

Fields == {CatCols[i] : i \in 1..Len(CatCols)} \cup {AmtCol, "isFraud"}

\* The numeric amounts used, as the float a JSON number parses to.
AmtOf == [a \in {"495.0", "20.0"} |-> IF a = "495.0" THEN 495 ELSE 20]

IsNumeric(v) == v \in DOMAIN AmtOf \/ v = NaN

\* Sort order of the category strings (np.unique sorts; NaN sorts last).
SortedValues == <<"C", "F", "T", "W", "gmail.com", "live.com", "mastercard", "visa", NaN>>

(***************************************************************************)
(* Training cell: enc = OneHotEncoder(handle_unknown="ignore"); enc.fit(X) *)
(***************************************************************************)
TrainRow(p, pe, re, c4, m1, m2, m3) ==
    [f \in {CatCols[i] : i \in 1..Len(CatCols)} |->
        CASE f = "ProductCD" -> p
          [] f = "P_emaildomain" -> pe
          [] f = "R_emaildomain" -> re
          [] f = "card4" -> c4
          [] f = "M1" -> m1
          [] f = "M2" -> m2
          [] OTHER -> m3]

\* Two training samples: the second one has more categories, so that the
\* one-hot width of its encoder differs from the first.
TrainSets ==
    [s \in 1..2 |->
        IF s = 1
        THEN {TrainRow("W", "live.com", NaN, "visa", "T", "T", "T"),
              TrainRow("C", "gmail.com", NaN, "visa", "T", "T", "F")}
        ELSE {TrainRow("W", "live.com", NaN, "visa", "T", "T", "T"),
              TrainRow("C", "gmail.com", "gmail.com", "mastercard", "F", "T", "F")}]

OneHotEncoderDefault == [handle_unknown |-> "error"]

OneHotEncoder == [handle_unknown |-> "ignore"]

\* enc.fit(X): categories_[i] is the sorted unique values of column i.
Fit(e, X) ==
    [handle_unknown |-> e.handle_unknown,
     categories_ |-> [i \in 1..Len(CatCols) |->
        SelectSeq(SortedValues, LAMBDA v : \E row \in X : row[CatCols[i]] = v)]]

RECURSIVE SumLen(_, _)
SumLen(cats, i) == IF i = 0 THEN 0 ELSE Len(cats[i]) + SumLen(cats, i - 1)

\* len(enc.get_feature_names_out())
NFeaturesOut(e) == SumLen(e.categories_, Len(e.categories_))

RECURSIVE Flatten(_, _)
Flatten(ss, i) == IF i = 0 THEN <<>> ELSE Flatten(ss, i - 1) \o ss[i]

\* enc.transform(X).toarray() for one row: one bit per category of every
\* column; a value outside categories_[i] sets no bit of column i when
\* handle_unknown = "ignore".
TransformRow(e, row) ==
    Flatten([i \in 1..Len(CatCols) |->
                [k \in 1..Len(e.categories_[i]) |->
                    IF row[CatCols[i]] = e.categories_[i][k] THEN 1 ELSE 0]],
            Len(CatCols))

HasUnknown(e, row) ==
    \E i \in 1..Len(CatCols) :
        \A k \in 1..Len(e.categories_[i]) : row[CatCols[i]] # e.categories_[i][k]

\* transform raises ValueError on an unknown category unless handle_unknown
\* is "ignore".
TransformRaises(e, rows) ==
    /\ e.handle_unknown # "ignore"
    /\ \E j \in 1..Len(rows) : HasUnknown(e, rows[j])

(***************************************************************************)
(* The trained classifier.  It is opaque to the walkthrough; what matters  *)
(* is that predict is row-wise and that it checks the frame it is given.   *)
(* A model is a decision stump over one column of the training frame:      *)
(* feature 0 is TransactionAmt, feature k >= 1 the k-th one-hot column.    *)
(***************************************************************************)
XGBClassifier(feature, thr, n) ==
    [feature |-> feature, thr |-> thr, n_features_in_ |-> n]

\* model = xgb.fit(X_train, y_train): with the seeds fixed the model is a
\* function of the training sample.  Sample 1 yields a split on the amount,
\* sample 2 a split on the second one-hot column (ProductCD_W).
XgbFit(ts, e) ==
    IF ts = 1
    THEN XGBClassifier(0, 100, NFeaturesOut(e) + 1)
    ELSE XGBClassifier(2, 1, NFeaturesOut(e) + 1)

PredictRow(m, x) ==
    IF m.feature = 0
    THEN IF x.amt = NaN THEN 0
         ELSE IF AmtOf[x.amt] >= m.thr THEN 1 ELSE 0
    ELSE IF x.onehot[m.feature] >= m.thr THEN 1 ELSE 0

\* model.predict(X) raises when a column is not numeric (object dtype) or
\* when the frame does not have the training columns.
PredictRaises(m, X) ==
    \E j \in 1..Len(X) :
        \/ ~IsNumeric(X[j].amt)
        \/ Len(X[j].onehot) + 1 # m.n_features_in_

ModelPredict(m, X) == [j \in 1..Len(X) |-> PredictRow(m, X[j])]

(***************************************************************************)
(* Requests: a JSON array of records.  A record is a function over Fields  *)
(* whose value is Absent for a key the JSON object does not have.          *)
(***************************************************************************)
Rec(p, pe, re, c4, m1, m2, m3, amt, fraud) ==
    [f \in Fields |->
        CASE f = "ProductCD" -> p
          [] f = "P_emaildomain" -> pe
          [] f = "R_emaildomain" -> re
          [] f = "card4" -> c4
          [] f = "M1" -> m1
          [] f = "M2" -> m2
          [] f = "M3" -> m3
          [] f = AmtCol -> amt
          [] OTHER -> fraud]

\* The walkthrough's example request: an extra field and a null.
RecDoc == Rec("W", "live.com", null, "visa", "T", "T", "T", "495.0", "0")

\* A ProductCD no training sample has.
RecUnseen == Rec("Z", "live.com", null, "visa", "T", "T", "T", "20.0", Absent)

\* No TransactionAmt key.
RecNoAmt == Rec("C", "gmail.com", null, "visa", "T", "T", "F", Absent, Absent)

\* TransactionAmt is not a number.
RecBadAmt == Rec("W", "live.com", null, "visa", "T", "T", "T", "abc", Absent)

Records == {RecDoc, RecUnseen, RecNoAmt, RecBadAmt}

Batches == UNION {[1..n -> Records] : n \in 0..MaxBatch}

\* input=PandasDataFrame(): the frame read from the JSON array.  Its columns
\* are the keys that occur in some record; a record without the key, or with
\* null, holds NaN there.  The empty array gives a frame with no columns.
PandasDataFrame(batch) ==
    LET cols == {f \in Fields : \E i \in 1..Len(batch) : batch[i][f] # Absent}
    IN [columns |-> cols,
        rows |-> [i \in 1..Len(batch) |->
                    [f \in cols |-> IF batch[i][f] \in {Absent, null}
                                    THEN NaN ELSE batch[i][f]]]]

\* X.fillna(pd.NA)
FillNA(rows) ==
    [i \in 1..Len(rows) |->
        [f \in DOMAIN rows[i] |-> IF rows[i][f] = NaN THEN NA ELSE rows[i][f]]]

\* df[[...]] raises KeyError when a label is not a column.
KeyErrorOn(df, cols) == \E c \in cols : c \notin df.columns

\* ohe_encoder.fit_transform(X): the encoder relearns its categories from
\* the frame it is given.
FitTransform(e, rows) == Fit(e, {rows[j] : j \in 1..Len(rows)})

\* The encoder after ohe_encoder.transform(X): transform reads categories_
\* and sets no attribute.
Transform(e, rows) == e

\* The body of predict up to the runner call: the frame X handed to
\* fraud_classifier_runner.predict.run, or the exception raised before it,
\* and the encoder object as the call leaves it.
Preprocess(ohe, df) ==
    LET catset == {CatCols[i] : i \in 1..Len(CatCols)}
        X1 == FillNA([i \in 1..Len(df.rows) |-> [f \in catset |-> df.rows[i][f]]])
    IN IF KeyErrorOn(df, catset) THEN [raised |-> "KeyError", X |-> <<>>, ohe |-> ohe]
       ELSE IF TransformRaises(ohe, X1) THEN [raised |-> "ValueError", X |-> <<>>, ohe |-> ohe]
       ELSE IF KeyErrorOn(df, {AmtCol})
            THEN [raised |-> "KeyError", X |-> <<>>, ohe |-> Transform(ohe, X1)]
       ELSE [raised |-> None,
             X |-> [i \in 1..Len(df.rows) |->
                      [onehot |-> TransformRow(ohe, X1[i]),
                       amt |-> df.rows[i][AmtCol]]],
             ohe |-> Transform(ohe, X1)]

(***************************************************************************)
(* Serialisation.  save_model pickles the estimator and cloudpickles the   *)
(* custom objects; get(...) unpickles them.  An object is pickled as the   *)
(* list of its (attribute, value) pairs and rebuilt from that list.        *)
(***************************************************************************)
EncAttrs == <<"handle_unknown", "categories_">>

ModelAttrs == <<"feature", "thr", "n_features_in_">>

Dumps(obj, attrs) == [i \in 1..Len(attrs) |-> [key |-> attrs[i], val |-> obj[attrs[i]]]]

Loads(pkl) ==
    [a \in {pkl[i].key : i \in 1..Len(pkl)} |->
        pkl[CHOOSE i \in 1..Len(pkl) : pkl[i].key = a].val]

(***************************************************************************)
(* State.                                                                  *)
(***************************************************************************)
VARIABLES
    now,        \* the host clock that version ids and creation times come from
    items,      \* model store: version of "fraud_classifier" -> stored bundle
    latest,     \* the store's "latest" file of the name; 0 when there is none
    saver,      \* the save_model calls in progress
    written,    \* history: versions in the order their data was written
    calls,      \* history: the save_model calls made: tag and the objects given
    overlap,    \* history: some save_model call started during another one
    svcState,   \* life cycle of the service process
    ohe_encoder,                \* module global of fraud_detection_service
    fraud_classifier_runner,    \* module global: the runner's model
    encTag,     \* version the first "latest" lookup resolved to; 0 before it
    runnerTag,  \* version the second "latest" lookup resolved to; 0 before it
    loadError,  \* the exception that ended the import, or None
    req,        \* the HTTP requests
    queue       \* the runner's batching queue: requests awaiting the model

registry == <<now, items, latest, saver, written, calls, overlap>>

service == <<svcState, ohe_encoder, fraud_classifier_runner, encTag, runnerTag, loadError>>

serving == <<req, queue>>

vars == <<now, items, latest, saver, written, calls, overlap, svcState, ohe_encoder,
          fraud_classifier_runner, encTag, runnerTag, loadError, req, queue>>

Savers == 1..NumSavers

Reqs == 1..MaxReqs

NoEncoder == [handle_unknown |-> None, categories_ |-> [i \in 1..Len(CatCols) |-> <<>>]]

NoModel == [feature |-> 0, thr |-> 0, n_features_in_ |-> 0]

NoBundle ==
    [model_pkl |-> <<>>, custom_objects |-> [ohe_encoder |-> <<>>],
     labels |-> [owner |-> None, stage |-> None], metadata |-> [version |-> None],
     signatures |-> [predict |-> [batchable |-> FALSE, batch_dim |-> 0]],
     creation_time |-> 0]

IdleSaver == [pc |-> "idle", tag |-> 0, bundle |-> NoBundle]

(***************************************************************************)
(* bentoml.sklearn.save_model("fraud_classifier", model, ...)              *)
(***************************************************************************)
\* The version id of a new tag is made from a time-based uuid: the host
\* hands out a strictly increasing timestamp per call.
NewVersionStale(clock) == IF clock > 1 THEN clock - 1 ELSE clock

NewVersion(clock) == clock

\* The bundle save_model builds from its arguments.
Bundle(model, enc, ctime) ==
    [model_pkl |-> Dumps(model, ModelAttrs),
     custom_objects |-> [ohe_encoder |-> Dumps(enc, EncAttrs)],
     labels |-> [owner |-> "Cerebrium", stage |-> "prod"],
     metadata |-> [version |-> "1.0.0"],
     signatures |-> [predict |-> [batchable |-> TRUE, batch_dim |-> 0]],
     creation_time |-> ctime]

\* The call starts: a new tag and the pickled objects in a staging directory.
SaveCreate(s) ==
    /\ saver[s].pc = "idle"
    /\ now < MaxSaves
    /\ \E ts \in DOMAIN TrainSets :
         LET enc == Fit(OneHotEncoder, TrainSets[ts])
             model == XgbFit(ts, enc)
         IN /\ now' = now + 1
            /\ saver' = [saver EXCEPT ![s] =
                    [pc |-> "created", tag |-> NewVersion(now'),
                     bundle |-> Bundle(model, enc, now')]]
            /\ calls' = calls \o <<[tag |-> NewVersion(now'), model |-> model, enc |-> enc]>>
    /\ overlap' = (overlap \/ \E o \in Savers : saver[o].pc # "idle")
    /\ UNCHANGED <<items, latest, written, service, serving>>

\* The store registers the tag: it refuses a tag that exists, otherwise the
\* staged bundle becomes the item of that version.
RegisterByName(its, tag, bundle) == [v \in DOMAIN its \cup {tag} |-> bundle]

Register(its, tag, bundle) ==
    [v \in DOMAIN its \cup {tag} |-> IF v = tag THEN bundle ELSE its[v]]

SaveRegister(s) ==
    /\ saver[s].pc = "created"
    /\ IF saver[s].tag \in DOMAIN items
       THEN /\ saver' = [saver EXCEPT ![s] = IdleSaver]
            /\ UNCHANGED <<items, written>>
       ELSE /\ items' = Register(items, saver[s].tag, saver[s].bundle)
            /\ written' = Append(written, saver[s].tag)
            /\ saver' = [saver EXCEPT ![s].pc = "registered"]
    /\ UNCHANGED <<now, latest, calls, overlap, service, serving>>

\* On leaving register the store links "latest" to the new item unless the
\* item "latest" points to was created later.
LinkLatestKeep(its, cur, tag) == IF cur = 0 THEN tag ELSE cur

LinkLatest(its, cur, tag) ==
    IF cur = 0 \/ its[tag].creation_time >= its[cur].creation_time THEN tag ELSE cur

SaveLink(s) ==
    /\ saver[s].pc = "registered"
    /\ latest' = LinkLatest(items, latest, saver[s].tag)
    /\ saver' = [saver EXCEPT ![s] = IdleSaver]
    /\ UNCHANGED <<now, items, written, calls, overlap, service, serving>>

(***************************************************************************)
(* fraud_detection_service.py: the module body run by `bentoml serve`.     *)
(***************************************************************************)
\* bentoml.models.get("fraud_classifier:latest"): the version the "latest"
\* file names; NotFound (0 here) when the name has none.
GetOldest(its, cur) ==
    IF cur # 0 /\ cur \in DOMAIN its
    THEN CHOOSE v \in DOMAIN its : \A w \in DOMAIN its : v <= w
    ELSE 0

\* A lookup that falls back on whatever version the store holds when the
\* name has no "latest" file.
GetAny(its, cur) ==
    IF cur # 0 /\ cur \in DOMAIN its THEN cur
    ELSE IF DOMAIN its # {} THEN CHOOSE v \in DOMAIN its : TRUE
    ELSE 0

Get(its, cur) == IF cur # 0 /\ cur \in DOMAIN its THEN cur ELSE 0

\* `bentoml serve fraud_detection_service:svc` starts importing the module.
Serve ==
    /\ svcState = "Unstarted"
    /\ svcState' = "Loading"
    /\ UNCHANGED <<ohe_encoder, fraud_classifier_runner, encTag, runnerTag, loadError,
                   registry, serving>>

\* Where a lookup that raises leaves the process.
AfterLoadErrorRetry == "Loading"

AfterLoadError == "Stopped"

\* ohe_encoder = bentoml.models.get("fraud_classifier:latest").custom_objects["ohe_encoder"]
LoadEncoder ==
    /\ svcState = "Loading"
    /\ encTag = 0
    /\ LET v == Get(items, latest) IN
       IF v = 0
       THEN /\ svcState' = AfterLoadError
            /\ loadError' = "NotFound"
            /\ UNCHANGED <<ohe_encoder, encTag>>
       ELSE /\ ohe_encoder' = Loads(items[v].custom_objects.ohe_encoder)
            /\ encTag' = v
            /\ UNCHANGED <<svcState, loadError>>
    /\ UNCHANGED <<fraud_classifier_runner, runnerTag, registry, serving>>

\* fraud_classifier_runner = bentoml.sklearn.get("fraud_classifier:latest").to_runner()
\* svc = bentoml.Service("fraud_classifier", runners=[fraud_classifier_runner])
LoadRunner ==
    /\ svcState = "Loading"
    /\ encTag # 0
    /\ LET v == Get(items, latest) IN
       IF v = 0
       THEN /\ svcState' = AfterLoadError
            /\ loadError' = "NotFound"
            /\ UNCHANGED <<fraud_classifier_runner, runnerTag>>
       ELSE /\ fraud_classifier_runner' = Loads(items[v].model_pkl)
            /\ runnerTag' = v
            /\ svcState' = "Ready"
            /\ UNCHANGED loadError
    /\ UNCHANGED <<ohe_encoder, encTag, registry, serving>>

\* The process is told to stop: the server stops accepting requests.
Shutdown ==
    /\ svcState = "Ready"
    /\ svcState' = "ShuttingDown"
    /\ UNCHANGED <<ohe_encoder, fraud_classifier_runner, encTag, runnerTag, loadError,
                   registry, serving>>

\* The requests in flight have been answered and the process exits.
Exit ==
    /\ svcState = "ShuttingDown"
    /\ \A r \in Reqs : req[r].st # "queued"
    /\ svcState' = "Stopped"
    /\ UNCHANGED <<ohe_encoder, fraud_classifier_runner, encTag, runnerTag, loadError,
                   registry, serving>>

(***************************************************************************)
(* The predict API and the runner.                                         *)
(***************************************************************************)
\* A response: what the client sees (kind, labels), the exception behind an
\* error, and (history) the requests whose frames shared the model call.
NoResp == [kind |-> None, exc |-> None, labels |-> <<>>, call |-> {}]

IdleReq == [st |-> "idle", batch |-> <<>>, X |-> <<>>, resp |-> NoResp]

\* How the framework answers an exception that leaves the API function: its
\* own bad-input exceptions become a client error, anything else (KeyError,
\* ValueError, the runner's RemoteException) an internal server error.
HttpError(exc) ==
    IF exc \in {"BadInput", "InvalidArgument"} THEN "BadRequest" ELSE "InternalServerError"

ErrorResp(exc, call) == [kind |-> HttpError(exc), exc |-> exc, labels |-> <<>>, call |-> call]

\* The server accepts connections once the module is imported and until it
\* is told to stop.
AcceptingEarly(state) == state \in {"Loading", "Ready"}

Accepting(state) == state = "Ready"

\* Requests are numbered in the order they are sent.
InTurn(r) == IF r = 1 THEN TRUE ELSE req[r - 1].st # "idle"

\* The number of records sent so far; the clients send MaxRows in all.
RECURSIVE RowsSent(_)
RowsSent(r) == IF r = 0 THEN 0 ELSE Len(req[r].batch) + RowsSent(r - 1)

\* POST /fraud-classifier: predict(df) runs down to the runner call, where
\* the request waits in the runner's queue.
Request(r, batch) ==
    /\ Accepting(svcState)
    /\ req[r].st = "idle"
    /\ InTurn(r)
    /\ RowsSent(MaxReqs) + Len(batch) <= MaxRows
    /\ LET pre == Preprocess(ohe_encoder, PandasDataFrame(batch)) IN
       /\ IF pre.raised # None
          THEN /\ req' = [req EXCEPT ![r] =
                       [st |-> "done", batch |-> batch, X |-> <<>>,
                        resp |-> ErrorResp(pre.raised, {})]]
               /\ UNCHANGED queue
          ELSE /\ req' = [req EXCEPT ![r] =
                       [st |-> "queued", batch |-> batch, X |-> pre.X, resp |-> NoResp]]
               /\ queue' = Append(queue, r)
       /\ ohe_encoder' = pre.ohe
    /\ UNCHANGED <<svcState, fraud_classifier_runner, encTag, runnerTag, loadError, registry>>

\* A request sent while the process has no server accepting connections:
\* the module is still being imported, or the server has shut down.
Refuse(r) ==
    /\ ~Accepting(svcState)
    /\ req[r].st = "idle"
    /\ InTurn(r)
    /\ req' = [req EXCEPT ![r] =
            [st |-> "done", batch |-> <<>>, X |-> <<>>,
             resp |-> [kind |-> "Unavailable", exc |-> None, labels |-> <<>>, call |-> {}]]]
    /\ UNCHANGED <<queue, registry, service>>

\* signatures={"predict": {"batchable": True, "batch_dim": 0}}: the runner
\* may merge the frames of the first n waiting requests along axis 0, call
\* the model once and split the result by the frames' lengths.
RECURSIVE Concat(_, _)
Concat(frames, n) == IF n = 0 THEN <<>> ELSE Concat(frames, n - 1) \o frames[n]

RECURSIVE Offset(_, _)
Offset(frames, k) == IF k = 0 THEN 0 ELSE Offset(frames, k - 1) + Len(frames[k])

Split(out, frames, k) == SubSeq(out, Offset(frames, k - 1) + 1, Offset(frames, k))

\* Whether the signature lets the runner merge waiting requests.
Batchable(b) == b.signatures.predict.batchable

RunnerDispatch(n) ==
    /\ svcState \in {"Ready", "ShuttingDown"}
    /\ n \in 1..Len(queue)
    /\ IF n = 1 THEN TRUE ELSE Batchable(items[runnerTag])
    /\ LET frames == [k \in 1..n |-> req[queue[k]].X]
           merged == Concat(frames, n)
           call == {queue[k] : k \in 1..n}
       IN IF PredictRaises(fraud_classifier_runner, merged)
          THEN req' = [r \in Reqs |->
                    IF \E k \in 1..n : queue[k] = r
                    THEN [req[r] EXCEPT !.st = "done", !.X = <<>>,
                                        !.resp = ErrorResp("RemoteException", call)]
                    ELSE req[r]]
          ELSE LET out == ModelPredict(fraud_classifier_runner, merged) IN
               req' = [r \in Reqs |->
                    IF \E k \in 1..n : queue[k] = r
                    THEN LET k == CHOOSE k \in 1..n : queue[k] = r IN
                         [req[r] EXCEPT !.st = "done", !.X = <<>>,
                               !.resp = [kind |-> "labels", exc |-> None,
                                         labels |-> Split(out, frames, k),
                                         call |-> call]]
                    ELSE req[r]]
    /\ queue' = SubSeq(queue, n + 1, Len(queue))
    /\ UNCHANGED <<registry, service>>

(***************************************************************************)
(* Specifications.                                                         *)
(***************************************************************************)
InitService ==
    /\ svcState = "Unstarted"
    /\ ohe_encoder = NoEncoder
    /\ fraud_classifier_runner = NoModel
    /\ encTag = 0
    /\ runnerTag = 0
    /\ loadError = None
    /\ req = [r \in Reqs |-> IdleReq]
    /\ queue = <<>>

\* The store is empty and nothing runs.
Init ==
    /\ now = 0
    /\ items = <<>>
    /\ latest = 0
    /\ saver = [s \in Savers |-> IdleSaver]
    /\ written = <<>>
    /\ calls = <<>>
    /\ overlap = FALSE
    /\ InitService

\* Saves into the store, and a service starting and stopping beside them.
Next ==
    \/ \E s \in Savers : SaveCreate(s)
    \/ \E s \in Savers : SaveRegister(s)
    \/ \E s \in Savers : SaveLink(s)
    \/ Serve
    \/ LoadEncoder
    \/ LoadRunner
    \/ Shutdown
    \/ Exit

Spec == Init /\ [][Next]_vars

\* The store as the save cell leaves it (one version), or still empty,
\* before the service is started.
InitServe ==
    /\ saver = [s \in Savers |-> IdleSaver]
    /\ overlap = FALSE
    /\ \/ /\ now = 0
          /\ items = <<>>
          /\ latest = 0
          /\ written = <<>>
          /\ calls = <<>>
       \/ \E ts \in DOMAIN TrainSets :
            LET enc == Fit(OneHotEncoder, TrainSets[ts])
                model == XgbFit(ts, enc)
            IN /\ now = 1
               /\ items = Register(<<>>, NewVersion(1), Bundle(model, enc, 1))
               /\ latest = NewVersion(1)
               /\ written = <<NewVersion(1)>>
               /\ calls = <<[tag |-> NewVersion(1), model |-> model, enc |-> enc]>>
    /\ InitService

\* One service process and its clients.
NextServe ==
    \/ Serve
    \/ LoadEncoder
    \/ LoadRunner
    \/ Shutdown
    \/ Exit
    \/ \E r \in Reqs, batch \in Batches : Request(r, batch)
    \/ \E r \in Reqs : Refuse(r)
    \/ \E n \in 1..MaxReqs : RunnerDispatch(n)

SpecServe == InitServe /\ [][NextServe]_vars

\* The batch the clients send beside concurrent saves.
FullBatches == {<<RecDoc>>}

\* Saves, the service and its clients together.
NextFull ==
    \/ \E s \in Savers : SaveCreate(s)
    \/ \E s \in Savers : SaveRegister(s)
    \/ \E s \in Savers : SaveLink(s)
    \/ Serve
    \/ LoadEncoder
    \/ LoadRunner
    \/ Shutdown
    \/ Exit
    \/ \E r \in Reqs, batch \in FullBatches : Request(r, batch)
    \/ \E r \in Reqs : Refuse(r)
    \/ \E n \in 1..MaxReqs : RunnerDispatch(n)

SpecFull == Init /\ [][NextFull]_vars

(***************************************************************************)
(* Properties of the predict API (SpecServe).                              *)
(***************************************************************************)
Required == {CatCols[i] : i \in 1..Len(CatCols)} \cup {AmtCol}

\* A record with every input field present and a numeric amount.
ValidRecord(rec) == (\A f \in Required : rec[f] # Absent) /\ rec[AmtCol] \in DOMAIN AmtOf

ValidBatch(batch) == \A i \in 1..Len(batch) : ValidRecord(batch[i])

LacksField(batch) == \E i \in 1..Len(batch) : \E f \in Required : batch[i][f] = Absent

\* The request was handled by predict (it was not turned away at the door).
Answered(r) == req[r].st = "done" /\ req[r].resp.kind # "Unavailable"

\* What predict computes from the request's own batch.
ReqFrame(r) == Preprocess(ohe_encoder, PandasDataFrame(req[r].batch))

\* The label of one record: the loaded model on that record alone.
LabelOf(rec) ==
    ModelPredict(fraud_classifier_runner,
                 Preprocess(ohe_encoder, PandasDataFrame(<<rec>>)).X)[1]

\* C1 (as claimed): every valid batch, the empty one included, is answered
\* with exactly one label per record, the i-th label being the label of
\* the i-th record.
C1_Original ==
    \A r \in Reqs :
        (Answered(r) /\ ValidBatch(req[r].batch)) =>
            /\ req[r].resp.kind = "labels"
            /\ Len(req[r].resp.labels) = Len(req[r].batch)
            /\ \A i \in 1..Len(req[r].batch) :
                    req[r].resp.labels[i] = LabelOf(req[r].batch[i])

\* Whenever predict answers with labels there is one per record, and the
\* label of every valid record is at that record's position.
LabelsInInputOrder ==
    \A r \in Reqs :
        req[r].resp.kind = "labels" =>
            /\ Len(req[r].resp.labels) = Len(req[r].batch)
            /\ \A i \in 1..Len(req[r].batch) :
                    ValidRecord(req[r].batch[i]) =>
                        req[r].resp.labels[i] = LabelOf(req[r].batch[i])

\* Position i of the batch holds, in categorical column c, a value that is
\* not a category of the loaded encoder (null and a missing key are read as
\* NA, which is no category either).
UnknownAt(batch, i, c) ==
    LET v == IF batch[i][CatCols[c]] \in {Absent, null} THEN NA ELSE batch[i][CatCols[c]]
    IN \A k \in 1..Len(ohe_encoder.categories_[c]) : ohe_encoder.categories_[c][k] # v

HasUnseen(batch) == \E i \in 1..Len(batch) : \E c \in 1..Len(CatCols) : UnknownAt(batch, i, c)

C7_Original ==
    \A r \in Reqs :
        (Answered(r) /\ LacksField(req[r].batch)) => req[r].resp.kind = "BadRequest"

C10_Original ==
    \A r \in Reqs :
        (Answered(r) /\ ReqFrame(r).raised = None) =>
            IF PredictRaises(fraud_classifier_runner, ReqFrame(r).X)
            THEN req[r].resp.exc = "RemoteException"
            ELSE /\ req[r].resp.kind = "labels"
                 /\ req[r].resp.labels = ModelPredict(fraud_classifier_runner, ReqFrame(r).X)

(***************************************************************************)
(* Properties of the model store and of the service life cycle (Spec).     *)
(***************************************************************************)
AllIdle == \A s \in Savers : saver[s].pc = "idle"

\* The save_model call that made version v.
CallOf(v) == calls[CHOOSE i \in DOMAIN calls : calls[i].tag = v]

\* Call i has its tag but has not reached the store yet.
Staged(i) == \E s \in Savers : saver[s].pc = "created" /\ saver[s].tag = calls[i].tag

\* The stored item of version v unpickles to the objects call i was given.
Holds(v, i) ==
    /\ v \in DOMAIN items
    /\ Loads(items[v].model_pkl) = calls[i].model
    /\ Loads(items[v].custom_objects.ohe_encoder) = calls[i].enc

Allowed ==
    {<<"Unstarted", "Loading">>, <<"Loading", "Ready">>, <<"Ready", "ShuttingDown">>,
     <<"ShuttingDown", "Stopped">>, <<"Loading", "Stopped">>}

Outcome(r, pre, model) ==
    IF pre.raised # None THEN ErrorResp(pre.raised, {})
    ELSE IF PredictRaises(model, pre.X)
         THEN ErrorResp("RemoteException", {r})
         ELSE [kind |-> "labels", exc |-> None,
               labels |-> ModelPredict(model, pre.X), call |-> {r}]

\* C12: once both objects are loaded no step changes them, whatever the
\* requests do and however they interleave: a step that sends or answers a
\* request changes the requests and the runner's queue only, and a request
\* answered by a call of its own gets what its batch and the loaded objects
\* determine, whatever was sent before it.
C12_PredictLeavesArtifact ==
    [][/\ runnerTag # 0 =>
             UNCHANGED <<ohe_encoder, fraud_classifier_runner, encTag, runnerTag>>
       /\ serving' # serving => UNCHANGED <<registry, service>>
       /\ \A r \in Reqs :
             (req'[r].st = "done" /\ req[r].st # "done"
                /\ req'[r].resp.kind # "Unavailable" /\ req'[r].resp.call \subseteq {r}) =>
                 \A pre \in {Preprocess(ohe_encoder', PandasDataFrame(req'[r].batch))} :
                     req'[r].resp = Outcome(r, pre, fraud_classifier_runner')]_vars

\* C12 witness: a request that failed and a later request answered with
\* labels by a call of its own, the service still holding the objects of
\* the stored version.
C12_Witness ==
    /\ svcState = "Ready"
    /\ req[1].resp.kind = "InternalServerError"
    /\ req[2].resp.kind = "labels"
    /\ req[2].resp.call = {2}
    /\ ohe_encoder = Loads(items[encTag].custom_objects.ohe_encoder)
    /\ fraud_classifier_runner = Loads(items[runnerTag].model_pkl)

\* C13 (as claimed): in a Ready service the encoder and the model come from
\* the same stored version, also when a save_model call of the same name
\* runs while the module is being imported.
C13_Original ==
    svcState = "Ready" =>
        /\ encTag = runnerTag
        /\ \E v \in DOMAIN items :
              /\ ohe_encoder = Loads(items[v].custom_objects.ohe_encoder)
              /\ fraud_classifier_runner = Loads(items[v].model_pkl)

====
